---- MODULE Spec2Model ----
(***************************************************************************)
(* Ranking-and-correlation engine of COS452_texture_model:                 *)
(*   - the sequence store and decode_sequence (src/commands/sequence.py),  *)
(*   - the hand-rolled spearmanrank (src/etc/utilities.py, etc/helpers.py) *)
(*     and the scipy spearmanr call of rank_standard (commands/data.py).   *)
(*   - the store write path and the sequence new / delete commands,       *)
(*   - rank_standard and decode_command (src/commands/data.py),            *)
(*   - AnalyzerBase.sort (src/analysis/__init__.py).                       *)
(*                                                                         *)
(* Python values are represented as follows.                               *)
(*   list            TLA+ sequence                                         *)
(*   dict            function whose DOMAIN is the set of keys              *)
(*   x or None       record [some |-> BOOLEAN, val |-> x]                  *)
(*   call outcome    record [outcome |-> "return" | "raise", ...]          *)
(*   float           exact real, see Coef below (no rounding is modelled)  *)
(***************************************************************************)
EXTENDS Integers, Sequences, FiniteSets, TLC

(***************************************************************************)
(* Bounds of the model.                                                    *)
(***************************************************************************)
\* number of letters of ascii_lowercase used as survey symbols
AlphabetBound == 3
\* longest enumerated stored sequence / raw survey row
MaxLen == 3
\* longest enumerated order handed to the correlator
MaxN == 3
\* labels handed to the correlator are 1..MaxLabel
MaxLabel == 4
\* images handed to AnalyzerBase.sort are 1..MaxImages
MaxImages == 3
\* scores returned by rate are 0..MaxScore
MaxScore == 2
\* longest sequence written by the store operations
MaxStoredLen == 2
\* number of symbols of each symbol set the generator draws from
SymbolSetBound == 2
\* largest --count given to the sequence new command
MaxCount == SymbolSetBound + 1
\* most data rows of a sorted-data or raw-data csv file
MaxRows == 2
\* most '-'-free pieces of the name of a sorted-data file
MaxPieces == 2

(***************************************************************************)
(* Generic helpers for Python lists and dicts.                             *)
(***************************************************************************)
Range(s) == {s[i] : i \in DOMAIN s}

SeqsUpTo(S, n) == UNION {[1..k -> S] : k \in 0..n}

Reverse(s) == [i \in 1..Len(s) |-> s[Len(s) + 1 - i]]

\* Python truthiness of a list-or-None value: None and [] are both falsy
Truthy(opt) == opt.some /\ Len(opt.val) > 0

None == [some |-> FALSE, val |-> <<>>]

Some(v) == [some |-> TRUE, val |-> v]

\* dict.get(key, None)
DictGet(d, key) == IF key \in DOMAIN d THEN Some(d[key]) ELSE None

\* {**d, key: value}
DictPut(d, key, value) ==
    [k \in DOMAIN d \cup {key} |-> IF k = key THEN value ELSE d[k]]

\* d after d.pop(key, None)
DictPop(d, key) == [k \in DOMAIN d \ {key} |-> d[k]]

(***************************************************************************)
(* src/etc/consts.py                                                       *)
(***************************************************************************)
ascii_lowercase ==
    <<"a", "b", "c", "d", "e", "f", "g", "h", "i", "j", "k", "l", "m",
      "n", "o", "p", "q", "r", "s", "t", "u", "v", "w", "x", "y", "z">>

ascii_uppercase ==
    <<"A", "B", "C", "D", "E", "F", "G", "H", "I", "J", "K", "L", "M",
      "N", "O", "P", "Q", "R", "S", "T", "U", "V", "W", "X", "Y", "Z">>

sorted_data_dir == <<"data", "sort">>

raw_sorted_data_dir == sorted_data_dir \o <<"raw">>

human_sorted_data_dir == sorted_data_dir \o <<"humans">>

\* seq_num_formatter = "{:02d}".format : at least two digits, zero padded
seq_num_formatter(n) == IF n < 10 THEN "0" \o ToString(n) ELSE ToString(n)

(***************************************************************************)
(* State.                                                                  *)
(***************************************************************************)
VARIABLES
    sequence_file,      \* data/sequence/sequences.json: [exists, data]
    sequences_cache,    \* the module global sequences_cache (a dict)
    sequence_name,      \* decode_sequence: argument sequence_name
    input_sequence,     \* decode_sequence: argument input_sequence
    strict,             \* decode_sequence: argument strict
    decoded,            \* decode_sequence: outcome of the call
    seq1,               \* correlator: first argument (the reference order)
    seq2,               \* correlator: second argument (the observed order)
    correlator,         \* which correlator ran: "spearmanrank" | "spearmanr"
    correlated,         \* correlator: outcome of the call
    images,             \* AnalyzerBase.sort: argument images (a list of image ids)
    rates,              \* self.rate(image, orig) of every image
    big_similar,        \* the Analyzer's class attribute big_similar
    sorted_images,      \* AnalyzerBase.sort: outcome of the call
    latest,             \* history: per name, the symbols of the latest write
    store_call,         \* the last store call or command and what it returned
    rank_in,            \* rank_standard: agents, filters and the sorted-data files
    rank_pos,           \* rank_standard: position of the two nested loops
    rank_out,           \* rank_standard: rows written to f, and reports echoed
    batch_in,           \* decode_command: file_names and the raw csv files
    batch_pos,          \* decode_command: position of the two nested loops
    batch_out,          \* decode_command: rows written per file, and reports echoed
    filename,           \* a csv file that get_agent_names found under data/sort
    listed_agent,       \* file2agent(filename), split at agent_name_delim
    resolved_file       \* agent2file(agent) as computed by rank_standard

store_vars == <<sequence_file, sequences_cache>>

decode_vars == <<sequence_name, input_sequence, strict, decoded>>

corr_vars == <<seq1, seq2, correlator, correlated>>

sort_vars == <<images, rates, big_similar, sorted_images>>

storeop_vars == <<latest, store_call>>

rank_vars == <<rank_in, rank_pos, rank_out>>

batch_vars == <<batch_in, batch_pos, batch_out>>

agent_vars == <<filename, listed_agent, resolved_file>>

vars == <<sequence_file, sequences_cache, sequence_name, input_sequence,
          strict, decoded, seq1, seq2, correlator, correlated,
          images, rates, big_similar, sorted_images, latest, store_call,
          rank_in, rank_pos, rank_out, batch_in, batch_pos, batch_out,
          filename, listed_agent, resolved_file>>

EmptyDict == <<>>

Pending == [outcome |-> "pending", value |-> <<>>, error |-> "", message |-> <<>>]

Return(v) == [outcome |-> "return", value |-> v, error |-> "", message |-> <<>>]

Raise(kind, msg) == [outcome |-> "raise", value |-> <<>>, error |-> kind, message |-> msg]

(***************************************************************************)
(* Each specification below runs one part of the program; the variables of *)
(* the other parts rest at these values.                                   *)
(***************************************************************************)
StoreIdle ==
    /\ sequence_file = [exists |-> FALSE, data |-> EmptyDict]
    /\ sequences_cache = EmptyDict

DecodeIdle ==
    /\ sequence_name = "" /\ input_sequence = <<>> /\ strict = TRUE
    /\ decoded = Pending

CorrIdle ==
    /\ seq1 = <<>> /\ seq2 = <<>> /\ correlator = "none" /\ correlated = Pending

SortIdle ==
    /\ images = <<>> /\ rates = <<>> /\ big_similar = TRUE
    /\ sorted_images = Pending

\* the options of a sequence command and its local variable sequence
CallArgs(count, set_name, force, replacement, truncate, verbose, sequence) ==
    [count |-> count, set_name |-> set_name, force |-> force,
     replacement |-> replacement, truncate |-> truncate, verbose |-> verbose,
     sequence |-> sequence]

\* a store function takes a name and at most a sequence
SequenceArg(sequence) == CallArgs(0, "", FALSE, FALSE, FALSE, FALSE, sequence)

\* store_call: the call, its name and other arguments, sequences.json and
\* read_sequences() before it, what it returned or raised, what it echoed
StoreCall(op, name, args, file, before, result, echo) ==
    [op |-> op, name |-> name, args |-> args, file |-> file, before |-> before,
     result |-> result, echo |-> echo]

NoStoreCall ==
    StoreCall("none", "", SequenceArg(<<>>), [exists |-> FALSE, data |-> EmptyDict],
              EmptyDict, Pending, <<>>)

StoreOpIdle == latest = <<>> /\ store_call = NoStoreCall

RankIdle == rank_in = <<>> /\ rank_pos = <<>> /\ rank_out = <<>>

BatchIdle == batch_in = <<>> /\ batch_pos = <<>> /\ batch_out = <<>>

AgentIdle == filename = <<>> /\ listed_agent = Pending /\ resolved_file = Pending

(***************************************************************************)
(* src/commands/sequence.py : the store read path.                         *)
(***************************************************************************)
\* The file is only ever written by write_json, so it parses whenever it
\* exists; a non-empty cache is returned without looking at the file.
\* read_sequences(): value returned, given the cache and the file
read_sequences(cache, file) ==
    IF DOMAIN cache # {} THEN cache
    ELSE IF ~file.exists THEN EmptyDict
    ELSE file.data

\* read_sequences(): the global sequences_cache after the call
read_sequences_cache(cache, file) ==
    IF DOMAIN cache # {} THEN cache
    ELSE IF ~file.exists THEN cache
    ELSE file.data

read_sequence(cache, file, name) == DictGet(read_sequences(cache, file), name)

(***************************************************************************)
(* src/commands/sequence.py : decode_sequence.                             *)
(***************************************************************************)
\* { key: seq_num_formatter(index + 1) for index, key in enumerate(keys) }
\* a key that occurs twice keeps the label of its last occurrence
sequence_map(sequence_keys) ==
    [key \in Range(sequence_keys) |->
        LET last == CHOOSE i \in DOMAIN sequence_keys :
                        /\ sequence_keys[i] = key
                        /\ \A j \in DOMAIN sequence_keys :
                               sequence_keys[j] = key => j <= i
        IN  seq_num_formatter((last - 1) + 1)]

\* [ sequence_map[key] for key in input_sequence ] with its KeyError handler
map_lookup(smap, input) ==
    IF \A i \in DOMAIN input : input[i] \in DOMAIN smap
    THEN Return([i \in DOMAIN input |-> smap[input[i]]])
    ELSE LET first == CHOOSE i \in DOMAIN input :
                          /\ input[i] \notin DOMAIN smap
                          /\ \A j \in 1..(i - 1) : input[j] \in DOMAIN smap
         IN  Raise("UnknownSymbol",
                   <<"Unknown symbol in sequence: ", "'" \o input[first] \o "'">>)

\* decode_sequence without the strict branch on an unknown name
decode_sequence_lenient(sequence_keys, name, input, is_strict) ==
    IF ~Truthy(sequence_keys)
    THEN Return(input)
    ELSE map_lookup(sequence_map(sequence_keys.val), input)

\* decode_sequence that decodes an unknown name against an empty key list
decode_sequence_nokeys(sequence_keys, name, input, is_strict) ==
    IF ~Truthy(sequence_keys)
    THEN IF is_strict
         THEN Raise("InvalidSequenceName", <<"Invalid sequence name ", name>>)
         ELSE map_lookup(sequence_map(<<>>), input)
    ELSE map_lookup(sequence_map(sequence_keys.val), input)

\* decode_sequence without the check for repeated elements of the input
decode_sequence_norepeatcheck(sequence_keys, name, input, is_strict) ==
    IF ~Truthy(sequence_keys)
    THEN IF is_strict
         THEN Raise("InvalidSequenceName", <<"Invalid sequence name ", name>>)
         ELSE Return(input)
    ELSE IF is_strict /\ Len(input) # Len(sequence_keys.val)
    THEN Raise("LengthsDoNotMatch",
               <<"Sequence lengths do not match: ",
                 ToString(Len(input)), " != ", ToString(Len(sequence_keys.val))>>)
    ELSE map_lookup(sequence_map(sequence_keys.val), input)

decode_sequence(sequence_keys, name, input, is_strict) ==
    IF ~Truthy(sequence_keys)
    THEN IF is_strict
         THEN Raise("InvalidSequenceName", <<"Invalid sequence name ", name>>)
         ELSE Return(input)
    ELSE LET input_length == Len(input)
             set_length   == Cardinality(Range(input))
             key_length   == Len(sequence_keys.val)
         IN  IF is_strict /\ input_length # key_length
             THEN Raise("LengthsDoNotMatch",
                        <<"Sequence lengths do not match: ",
                          ToString(input_length), " != ", ToString(key_length)>>)
             ELSE IF is_strict /\ input_length # set_length
             THEN Raise("RepetitiveElement",
                        <<"Given sequence contains repetitive element">>)
             ELSE map_lookup(sequence_map(sequence_keys.val), input)

(***************************************************************************)
(* Specification SpecDecode: one decode_sequence call against a store.     *)
(***************************************************************************)
Symbols == {ascii_lowercase[i] : i \in 1..AlphabetBound}

SeqNames == {"wheat_noise", "dirt_zoom"}

\* what `sequence new` can have written: any list of symbols, also [] (count 0)
\* and lists with repeats (--replacement); plus one full-width key of 11 symbols
LongKeys == [i \in 1..11 |-> ascii_lowercase[i]]

StoredSequences == SeqsUpTo(Symbols, MaxLen) \cup {LongKeys}

\* raw survey rows: any list of symbols, and re-orderings of the long key
RawRows ==
    SeqsUpTo(Symbols, MaxLen)
        \cup {LongKeys, Reverse(LongKeys),
              [i \in 1..11 |-> LongKeys[(i % 11) + 1]],
              [i \in 1..11 |-> IF i = 11 THEN "a" ELSE LongKeys[i]],
              [i \in 1..10 |-> LongKeys[i]]}

DecodeStores ==
    {[exists |-> FALSE, data |-> EmptyDict], [exists |-> TRUE, data |-> EmptyDict]}
        \cup {[exists |-> TRUE, data |-> [n \in {name} |-> keys]] :
                  name \in SeqNames, keys \in StoredSequences}

InitDecode ==
    /\ sequence_file \in DecodeStores
    /\ sequences_cache = EmptyDict
    /\ sequence_name \in SeqNames
    /\ input_sequence \in RawRows
    /\ strict = TRUE
    /\ decoded = Pending
    /\ CorrIdle /\ SortIdle /\ StoreOpIdle /\ RankIdle /\ BatchIdle
    /\ AgentIdle

DecodeCall(is_strict) ==
    /\ decoded.outcome = "pending"
    /\ strict' = is_strict
    /\ decoded' = decode_sequence(
                      read_sequence(sequences_cache, sequence_file, sequence_name),
                      sequence_name, input_sequence, is_strict)
    /\ sequences_cache' = read_sequences_cache(sequences_cache, sequence_file)
    /\ UNCHANGED <<sequence_file, sequence_name, input_sequence>>
    /\ UNCHANGED <<corr_vars, sort_vars, storeop_vars, rank_vars, batch_vars, agent_vars>>

\* decode_sequence(name, row) as called by decode_command (strict defaults to True)
DecodeStrict == DecodeCall(TRUE)

\* decode_sequence(name, row, strict=False)
DecodeNonStrict == DecodeCall(FALSE)

NextDecode == DecodeStrict \/ DecodeNonStrict

SpecDecode == InitDecode /\ [][NextDecode]_vars

(***************************************************************************)
(* Floats.  A coefficient is kept exactly as num / sqrt(den2), den2 > 0,   *)
(* or as NaN; rounding happens only when rank_standard prints (data.py     *)
(* lines 69-70) and is not part of the correlators.                        *)
(***************************************************************************)
NaN == [nan |-> TRUE, num |-> 0, den2 |-> 1]

Coef(n, d2) == [nan |-> FALSE, num |-> n, den2 |-> d2]

CoefInUnitInterval(c) == ~c.nan /\ c.num * c.num <= c.den2

CoefIsOne(c) == ~c.nan /\ c.num > 0 /\ c.num * c.num = c.den2

CoefIsMinusOne(c) == ~c.nan /\ c.num < 0 /\ c.num * c.num = c.den2

RECURSIVE SumSeq(_)
SumSeq(s) == IF Len(s) = 0 THEN 0 ELSE s[1] + SumSeq(Tail(s))

(***************************************************************************)
(* src/etc/utilities.py, src/etc/helpers.py : the hand-rolled spearmanrank *)
(***************************************************************************)
\* list.index(x), 0-based: position of the first occurrence
list_index(s, x) ==
    (CHOOSE i \in DOMAIN s : s[i] = x /\ \A j \in 1..(i - 1) : s[j] # x) - 1

\* spearmanrank comparing 0-based idx against 1-based positions
spearmanrank_offbyone(a, b) ==
    IF Len(a) # Len(b) \/ \E i \in DOMAIN b : b[i] \notin Range(a)
    THEN Raise("ValueError", <<>>)
    ELSE LET n       == Len(a)
             idx     == [i \in DOMAIN b |-> list_index(a, b[i])]
             d_total == SumSeq([i \in DOMAIN idx |->
                                   (idx[i] - i) * (idx[i] - i)])
             denom   == n * (n * n - 1)
         IN  IF denom = 0
             THEN Raise("ZeroDivisionError", <<"division by zero">>)
             ELSE Return(Coef(denom - 6 * d_total, denom * denom))

\* spearmanrank dividing by n^3 instead of n(n^2 - 1)
spearmanrank_cubed(a, b) ==
    IF Len(a) # Len(b) \/ \E i \in DOMAIN b : b[i] \notin Range(a)
    THEN Raise("ValueError", <<>>)
    ELSE LET n       == Len(a)
             idx     == [i \in DOMAIN b |-> list_index(a, b[i])]
             d_total == SumSeq([i \in DOMAIN idx |->
                                   (idx[i] - (i - 1)) * (idx[i] - (i - 1))])
             denom   == n * n * n
         IN  IF denom = 0
             THEN Raise("ZeroDivisionError", <<"division by zero">>)
             ELSE Return(Coef(denom - 6 * d_total, denom * denom))

\* spearmanrank that sums the distances instead of their squares
spearmanrank_unsquared(a, b) ==
    IF Len(a) # Len(b) \/ \E i \in DOMAIN b : b[i] \notin Range(a)
    THEN Raise("ValueError", <<>>)
    ELSE LET n       == Len(a)
             idx     == [i \in DOMAIN b |-> list_index(a, b[i])]
             d_total == SumSeq([i \in DOMAIN idx |->
                                   IF idx[i] >= i - 1 THEN idx[i] - (i - 1)
                                   ELSE (i - 1) - idx[i]])
             denom   == n * (n * n - 1)
         IN  IF denom = 0
             THEN Raise("ZeroDivisionError", <<"division by zero">>)
             ELSE Return(Coef(denom - 6 * d_total, denom * denom))

spearmanrank(a, b) ==
    IF Len(a) # Len(b)
    THEN Raise("ValueError",
               <<"the two sequences are of different length: ",
                 ToString(Len(a)), " and ", ToString(Len(b))>>)
    ELSE IF \E i \in DOMAIN b : b[i] \notin Range(a)
    THEN Raise("ValueError", <<"x is not in list">>)
    ELSE LET n       == Len(a)
             idx     == [i \in DOMAIN b |-> list_index(a, b[i])]
             d_total == SumSeq([i \in DOMAIN idx |->
                                   (idx[i] - (i - 1)) * (idx[i] - (i - 1))])
             denom   == n * (n * n - 1)
         IN  IF denom = 0
             THEN Raise("ZeroDivisionError", <<"division by zero">>)
             ELSE Return(Coef(denom - 6 * d_total, denom * denom))

(***************************************************************************)
(* scipy.stats.spearmanr as called at src/commands/data.py line 64.        *)
(* Labels are strings ordered lexicographically; the model's labels are    *)
(* the naturals 1..99 in the order of their zero-padded width-2 strings.   *)
(***************************************************************************)
\* scipy.stats.rankdata(method='average'), doubled and centred:
\* 2 * rank - (n + 1), an integer also when ties give a half rank
rankdata2(a) ==
    [i \in DOMAIN a |->
        2 * Cardinality({j \in DOMAIN a : a[j] < a[i]})
          + Cardinality({j \in DOMAIN a : a[j] = a[i]}) - Len(a)]

\* a p-value computed from 1/t^2 in place of t^2
pvalue_inverted(sxy, sxx, syy, dof) ==
    IF sxx * syy = 0 \/ dof = 0
    THEN [nan |-> TRUE, tnum |-> 0, tden |-> 1, dof |-> dof]
    ELSE [nan |-> FALSE, tnum |-> sxx * syy - sxy * sxy,
          tden |-> sxy * sxy * dof, dof |-> dof]

\* two-sided p-value of t = r * sqrt(dof / ((r + 1)(1 - r))) under Student's t
\* with dof degrees of freedom, kept as t^2 = tnum / tden (tden = 0: t infinite,
\* p = 0); NaN when r is NaN or dof = 0
pvalue(sxy, sxx, syy, dof) ==
    IF sxx * syy = 0 \/ dof = 0
    THEN [nan |-> TRUE, tnum |-> 0, tden |-> 1, dof |-> dof]
    ELSE [nan |-> FALSE, tnum |-> sxy * sxy * dof,
          tden |-> sxx * syy - sxy * sxy, dof |-> dof]

spearmanr(a, b) ==
    IF Len(a) # Len(b)
    THEN Raise("ValueError",
               <<"all the input array dimensions for the concatenation axis must match exactly">>)
    ELSE IF Len(a) <= 1
    THEN Return([correlation |-> NaN, pvalue |-> pvalue(0, 0, 0, 0)])
    ELSE LET ra  == rankdata2(a)
             rb  == rankdata2(b)
             sxy == SumSeq([i \in DOMAIN ra |-> ra[i] * rb[i]])
             sxx == SumSeq([i \in DOMAIN ra |-> ra[i] * ra[i]])
             syy == SumSeq([i \in DOMAIN rb |-> rb[i] * rb[i]])
         IN  Return([correlation |-> IF sxx * syy = 0 THEN NaN
                                     ELSE Coef(sxy, sxx * syy),
                     pvalue |-> pvalue(sxy, sxx, syy, Len(a) - 2)])

(***************************************************************************)
(* Specification SpecCorr: one correlator call on a pair of orders.        *)
(***************************************************************************)
Labels == 1..MaxLabel

\* the canonical reference order 01..11 of a full table
Canonical11 == [i \in 1..11 |-> i]

\* the end-to-end scenario: positions 5 and 6 swapped
Swapped56 == [i \in 1..11 |-> IF i = 5 THEN 6 ELSE IF i = 6 THEN 5 ELSE i]

\* every order of up to MaxN labels (repeats included), and some longer ones:
\* full tables of 11 labels and a few orders of 4 and 5 labels
Orders ==
    SeqsUpTo(Labels, MaxN)
        \cup {Canonical11, Reverse(Canonical11), Swapped56, Reverse(Swapped56),
              [i \in 1..11 |-> IF i = 11 THEN 1 ELSE i]}
        \cup {<<1, 2, 3, 4>>, <<4, 3, 2, 1>>, <<1, 3, 2, 4>>, <<4, 2, 3, 1>>,
              <<2, 4, 1, 3>>, <<3, 1, 4, 2>>, <<1, 2, 2, 3>>, <<3, 2, 2, 1>>,
              <<1, 2, 3, 4, 5>>, <<5, 4, 3, 2, 1>>, <<2, 1, 3, 5, 4>>,
              <<4, 5, 3, 1, 2>>}

InitCorr ==
    /\ StoreIdle /\ DecodeIdle /\ SortIdle /\ StoreOpIdle /\ RankIdle /\ BatchIdle
    /\ AgentIdle
    /\ seq1 \in Orders
    /\ seq2 \in Orders
    /\ correlator = "none"
    /\ correlated = Pending

\* the hand-rolled spearmanrank(seq1, seq2)
SpearmanRankCall ==
    /\ correlator = "none"
    /\ correlator' = "spearmanrank"
    /\ correlated' = spearmanrank(seq1, seq2)
    /\ UNCHANGED <<seq1, seq2>>
    /\ UNCHANGED <<store_vars, decode_vars, sort_vars, storeop_vars, rank_vars,
                   batch_vars, agent_vars>>

\* r, p = spearmanr(reference_order, order) in rank_standard
SpearmanrCall ==
    /\ correlator = "none"
    /\ correlator' = "spearmanr"
    /\ correlated' = spearmanr(seq1, seq2)
    /\ UNCHANGED <<seq1, seq2>>
    /\ UNCHANGED <<store_vars, decode_vars, sort_vars, storeop_vars, rank_vars,
                   batch_vars, agent_vars>>

NextCorr == SpearmanRankCall \/ SpearmanrCall

SpecCorr == InitCorr /\ [][NextCorr]_vars

(***************************************************************************)
(* src/commands/sequence.py : the store write path.                        *)
(***************************************************************************)
\* write_sequences that leaves the module global sequences_cache alone
write_sequences_nocache(sequences, cache, file) ==
    [file |-> [exists |-> TRUE, data |-> sequences], cache |-> cache]

\* write_sequences(sequences): write_json, then sequences_cache = sequences
write_sequences(sequences, cache, file) ==
    [file |-> [exists |-> TRUE, data |-> sequences], cache |-> sequences]

\* write_sequences({**read_sequences(), sequence_name: sequence})
write_sequence(name, sequence, cache, file) ==
    write_sequences(DictPut(read_sequences(cache, file), name, sequence),
                    read_sequences_cache(cache, file), file)

\* remove_sequence that writes an empty collection
remove_sequence_clear(name, cache, file) ==
    LET sequences == read_sequences(cache, file)
        written   == write_sequences(EmptyDict,
                                     read_sequences_cache(cache, file), file)
    IN  [file |-> written.file, cache |-> written.cache,
         removed |-> DictGet(sequences, name)]

\* sequences = read_sequences(); removed = sequences.pop(name, None);
\* write_sequences(sequences); return removed.  The pop acts on the dict that
\* read_sequences returned, which is the cache object unless both the cache and
\* the file are empty.
remove_sequence(name, cache, file) ==
    LET sequences == read_sequences(cache, file)
        popped    == DictPop(sequences, name)
        aliased   == DOMAIN read_sequences_cache(cache, file) # {}
        written   == write_sequences(popped,
                                     IF aliased THEN popped ELSE cache, file)
    IN  [file |-> written.file, cache |-> written.cache,
         removed |-> DictGet(sequences, name)]

(***************************************************************************)
(* Specification SpecStore: any number of write_sequence, remove_sequence  *)
(* and read_sequence calls, in processes that start with an empty cache.   *)
(***************************************************************************)
StoreValues == SeqsUpTo({"a", "b"}, MaxStoredLen)

\* collections over the names SeqNames
StoredDicts ==
    UNION {[names -> StoreValues] : names \in SUBSET SeqNames}

SequenceFiles ==
    {[exists |-> FALSE, data |-> EmptyDict]}
        \cup {[exists |-> TRUE, data |-> d] : d \in {EmptyDict} \cup StoredDicts}

InitStore ==
    /\ DecodeIdle /\ CorrIdle /\ SortIdle /\ RankIdle /\ BatchIdle
    /\ AgentIdle
    /\ sequence_file \in SequenceFiles
    /\ sequences_cache = EmptyDict
    /\ latest = [n \in SeqNames |-> DictGet(sequence_file.data, n)]
    /\ store_call = NoStoreCall

StoreFrame ==
    UNCHANGED <<decode_vars, corr_vars, sort_vars, rank_vars, batch_vars, agent_vars>>

WriteSequence ==
    \E name \in SeqNames, sequence \in StoreValues :
        LET before  == read_sequences(sequences_cache, sequence_file)
            written == write_sequence(name, sequence, sequences_cache, sequence_file)
        IN  /\ sequence_file' = written.file
            /\ sequences_cache' = written.cache
            /\ latest' = [latest EXCEPT ![name] = Some(sequence)]
            /\ store_call' = StoreCall("write_sequence", name, SequenceArg(sequence),
                                       sequence_file, before, Return(None), <<>>)
            /\ StoreFrame

RemoveSequence ==
    \E name \in SeqNames :
        LET before  == read_sequences(sequences_cache, sequence_file)
            removal == remove_sequence(name, sequences_cache, sequence_file)
        IN  /\ sequence_file' = removal.file
            /\ sequences_cache' = removal.cache
            /\ latest' = [latest EXCEPT ![name] = None]
            /\ store_call' = StoreCall("remove_sequence", name, SequenceArg(<<>>),
                                       sequence_file, before,
                                       Return(removal.removed), <<>>)
            /\ StoreFrame

ReadSequence ==
    \E name \in SeqNames :
        LET before == read_sequences(sequences_cache, sequence_file)
        IN  /\ sequences_cache' = read_sequences_cache(sequences_cache, sequence_file)
            /\ store_call' = StoreCall("read_sequence", name, SequenceArg(<<>>),
                                       sequence_file, before,
                                       Return(read_sequence(sequences_cache,
                                                            sequence_file, name)),
                                       <<>>)
            /\ UNCHANGED <<sequence_file, latest>>
            /\ StoreFrame

\* the process ends and a new one imports the module: sequences_cache = {}
Restart ==
    /\ store_call.op # "none"
    /\ sequences_cache' = EmptyDict
    /\ store_call' = NoStoreCall
    /\ UNCHANGED <<sequence_file, latest>>
    /\ StoreFrame

NextStore == WriteSequence \/ RemoveSequence \/ ReadSequence \/ Restart

SpecStore == InitStore /\ [][NextStore]_vars

(***************************************************************************)
(* Specification SpecStoreFaulty: SpecStore with remove_sequence calls in  *)
(* which write_sequences raises before anything reaches the disk (makedirs *)
(* or open fails), so that `sequences_cache = sequences` is not executed.  *)
(***************************************************************************)
\* remove_sequence when write_sequences raises: the pop has already acted on
\* the dict that read_sequences returned, which is the cache object unless
\* both the cache and the file are empty
remove_sequence_write_raises(name, cache, file) ==
    LET sequences == read_sequences(cache, file)
        popped    == DictPop(sequences, name)
        cache1    == read_sequences_cache(cache, file)
        aliased   == DOMAIN cache1 # {}
    IN  [file |-> file, cache |-> IF aliased THEN popped ELSE cache1,
         removed |-> DictGet(sequences, name)]

RemoveSequenceWriteRaises ==
    \E name \in SeqNames :
        LET before  == read_sequences(sequences_cache, sequence_file)
            removal == remove_sequence_write_raises(name, sequences_cache,
                                                    sequence_file)
        IN  /\ sequence_file' = removal.file
            /\ sequences_cache' = removal.cache
            /\ store_call' = StoreCall("remove_sequence", name, SequenceArg(<<>>),
                                       sequence_file, before,
                                       Raise("OSError", <<"write_json: ", "sequences.json">>),
                                       <<>>)
            /\ UNCHANGED latest
            /\ StoreFrame

NextStoreFaulty == NextStore \/ RemoveSequenceWriteRaises

SpecStoreFaulty == InitStore /\ [][NextStoreFaulty]_vars

(***************************************************************************)
(* src/commands/sequence.py : generate_random_sequence.                    *)
(* The symbol sets are cut to their first SymbolSetBound letters; a        *)
(* numeric symbol is an int, written here as "int:<n>" to keep it apart    *)
(* from the one-letter strings.                                            *)
(***************************************************************************)
int_symbol(n) == "int:" \o ToString(n)

SetNames == {"alpha", "Alpha", "numeric"}

\* the symbol_set chosen by set_name
symbol_set_of(set_name, count) ==
    IF set_name = "alpha" THEN SubSeq(ascii_lowercase, 1, SymbolSetBound)
    ELSE IF set_name = "Alpha" THEN SubSeq(ascii_uppercase, 1, SymbolSetBound)
    ELSE [i \in 1..count |-> int_symbol(i - 1)]

\* a slice that keeps the whole symbol set
slice_to_all(symbol_set, count) == symbol_set

\* symbol_set[:count] for count >= 0
slice_to(symbol_set, count) ==
    SubSeq(symbol_set, 1, IF count < Len(symbol_set) THEN count ELSE Len(symbol_set))

\* random.choices(population, k=k): every list of k members can come out
random_choices(population, k) ==
    IF Len(population) = 0 /\ k > 0
    THEN {Raise("IndexError", <<"list index out of range">>)}
    ELSE {Return(sample) : sample \in [1..k -> Range(population)]}

\* random.sample(population, k=k): every list of k different positions
random_sample(population, k) ==
    IF k > Len(population)
    THEN {Raise("ValueError", <<"Sample larger than population or is negative">>)}
    ELSE {Return([i \in 1..k |-> population[pick[i]]]) :
            pick \in {f \in [1..k -> DOMAIN population] :
                         \A i, j \in 1..k : f[i] = f[j] => i = j}}

\* generate_random_sequence without the check of count against the symbol set
generate_random_sequence_nocheck(count, set_name, replacement, truncate) ==
    LET symbol_set == symbol_set_of(set_name, count)
        population == IF truncate THEN slice_to(symbol_set, count) ELSE symbol_set
    IN  IF replacement THEN random_choices(population, count)
        ELSE random_sample(population, count)

\* the set of outcomes of generate_random_sequence(count, set_name,
\* replacement, truncate); the message is a plain string in the code, not an
\* f-string, so its braces are printed as written
generate_random_sequence(count, set_name, replacement, truncate) ==
    LET symbol_set == symbol_set_of(set_name, count)
        population == IF truncate THEN slice_to(symbol_set, count) ELSE symbol_set
    IN  IF ~replacement /\ count > Len(symbol_set)
        THEN {Raise("ClickException",
                    <<"Count {count} is greater than the length of the symbol set {set_name} {len(symbol_set)}">>)}
        ELSE IF replacement THEN random_choices(population, count)
        ELSE random_sample(population, count)

(***************************************************************************)
(* src/commands/sequence.py : the commands sequence new, sequence delete.  *)
(***************************************************************************)
\* one way a command can end: the store it leaves, the local variable
\* sequence, what it returned or raised, what it echoed
CommandEnd(file, cache, sequence, result, echo) ==
    [file |-> file, cache |-> cache, sequence |-> sequence, result |-> result,
     echo |-> echo]

\* ', '.join(sequence) raises TypeError on the first item that is not a str
join_fails(set_name, sequence) == set_name = "numeric" /\ Len(sequence) > 0

\* the set of ways new_sequence(name, count, set_name, force, replacement,
\* truncate, verbose) can end
new_sequence(name, args, cache, file) ==
    LET checked == ~args.force
        cache1  == IF checked THEN read_sequences_cache(cache, file) ELSE cache
    IN  IF checked /\ Truthy(read_sequence(cache, file, name))
        THEN {CommandEnd(file, cache1, <<>>, Return(None),
                         <<name, " already exists in sequence data, choose another one or use --force to override">>)}
        ELSE {IF generated.outcome = "raise"
              THEN CommandEnd(file, cache1, <<>>, generated, <<>>)
              ELSE LET written == write_sequence(name, generated.value, cache1, file)
                   IN  IF join_fails(args.set_name, generated.value)
                       THEN CommandEnd(written.file, written.cache, generated.value,
                                       Raise("TypeError",
                                             <<"sequence item 0: expected str instance, int found">>),
                                       <<>>)
                       ELSE CommandEnd(written.file, written.cache, generated.value,
                                       Return(None),
                                       IF args.verbose
                                       THEN <<"Successfully added new sequence [", name, "]: ">>
                                                \o generated.value
                                       ELSE <<>>)
              : generated \in generate_random_sequence(args.count, args.set_name,
                                                       args.replacement, args.truncate)}

\* the way delete_sequence(name, force, verbose) ends
delete_sequence(name, args, cache, file) ==
    LET cache1 == read_sequences_cache(cache, file)
    IN  IF ~Truthy(read_sequence(cache, file, name))
        THEN CommandEnd(file, cache1, <<>>, Return(None),
                        <<"Sequence [", name, "] does not exist">>)
        ELSE IF ~args.force
        THEN CommandEnd(file, cache1, <<>>, Return(None),
                        <<"Use --force to confirm action. Caution: This operation is not reversible">>)
        ELSE LET removal == remove_sequence(name, cache1, file)
             IN  CommandEnd(removal.file, removal.cache, removal.removed.val,
                            Return(None),
                            IF args.verbose
                            THEN <<"Sequence [", name, "] removed:">> \o removal.removed.val
                            ELSE <<>>)

(***************************************************************************)
(* Specification SpecCommand: one sequence command, run in a new process   *)
(* on a sequences.json left by earlier commands.                           *)
(***************************************************************************)
Counts == 0..MaxCount

InitCommand ==
    /\ DecodeIdle /\ CorrIdle /\ SortIdle /\ RankIdle /\ BatchIdle
    /\ AgentIdle
    /\ sequence_file \in SequenceFiles
    /\ sequences_cache = EmptyDict
    /\ latest = <<>>
    /\ store_call = NoStoreCall

NewSequence ==
    /\ store_call.op = "none"
    /\ \E name \in SeqNames, count \in Counts, set_name \in SetNames,
          force, replacement, truncate, verbose \in BOOLEAN :
          LET args == CallArgs(count, set_name, force, replacement, truncate,
                               verbose, <<>>)
          IN  \E end \in new_sequence(name, args, sequences_cache, sequence_file) :
                /\ sequence_file' = end.file
                /\ sequences_cache' = end.cache
                /\ store_call' =
                       StoreCall("new_sequence", name,
                                 [args EXCEPT !.sequence = end.sequence],
                                 sequence_file,
                                 read_sequences(sequences_cache, sequence_file),
                                 end.result, end.echo)
    /\ UNCHANGED latest
    /\ StoreFrame

DeleteSequence ==
    /\ store_call.op = "none"
    /\ \E name \in SeqNames, force, verbose \in BOOLEAN :
          LET args == CallArgs(0, "", force, FALSE, FALSE, verbose, <<>>)
              end  == delete_sequence(name, args, sequences_cache, sequence_file)
          IN  /\ sequence_file' = end.file
              /\ sequences_cache' = end.cache
              /\ store_call' =
                     StoreCall("delete_sequence", name,
                               [args EXCEPT !.sequence = end.sequence],
                               sequence_file,
                               read_sequences(sequences_cache, sequence_file),
                               end.result, end.echo)
    /\ UNCHANGED latest
    /\ StoreFrame

NextCommand == NewSequence \/ DeleteSequence

SpecCommand == InitCommand /\ [][NextCommand]_vars

(***************************************************************************)
(* src/etc/structure.py, src/etc/utilities.py : agents and their files.    *)
(* A string with delimiters is the sequence of its parts: the agent name   *)
(* "metrics-MSE" is <<"metrics", "MSE">>, a path is the sequence of its    *)
(* components below ROOT_DIR together with the extension that was appended.*)
(***************************************************************************)
\* os.path.join(ROOT_DIR, *sorted_data_dir, *agent.split('-')) + '.' + 'csv'
agent2file(agent) == [parts |-> sorted_data_dir \o agent, ext |-> ".csv"]

\* os.path.splitext(f)[1] == '.csv': only the name is looked at, never the
\* disk; the name ".csv" (empty last part) is a dot-file without extension
is_csv(f) == f.parts[Len(f.parts)] \o f.ext # ".csv" /\ f.ext = ".csv"

\* read_csv(path): the rows of the file; open() raises when there is no file
read_csv(files, path) ==
    IF path \in DOMAIN files /\ files[path].some
    THEN Return(files[path].val)
    ELSE Raise("FileNotFoundError", <<"No such file or directory: ", path>>)

(***************************************************************************)
(* src/commands/data.py : rank_standard.                                   *)
(***************************************************************************)
\* a line echoed by pif / click.echo
Report(kind, subject, category, transformation) ==
    [kind |-> kind, subject |-> subject, category |-> category,
     transformation |-> transformation]

\* a data row of a sorted-data file: "category#transformation", then the order
DataRow(category, transformation, order) ==
    [key |-> <<category, transformation>>, order |-> order]

\* what the loop over one agent's rows leaves: rows written, lines echoed,
\* and whether it ran through or raised
LoopEnd(written, echo, result) ==
    [written |-> written, echo |-> echo, result |-> result]

\* the loop `for category_transformation, *order in sorted_data` on the rows
\* that are left, after `written` and `echo`
RECURSIVE rank_rows(_, _, _, _, _, _)
rank_rows(agent, reference_order, sorted_data, filters, written, echo) ==
    IF Len(sorted_data) = 0 THEN LoopEnd(written, echo, Return(None))
    ELSE LET row            == Head(sorted_data)
             category       == row.key[1]
             transformation == row.key[2]
             rest           == Tail(sorted_data)
         IN  IF Len(filters.categories) > 0
                   /\ category \notin Range(filters.categories)
             THEN rank_rows(agent, reference_order, rest, filters, written,
                            IF filters.verbose
                            THEN Append(echo, Report("category not specified",
                                                     agent, category, transformation))
                            ELSE echo)
             ELSE IF Len(filters.transformations) > 0
                   /\ transformation \notin Range(filters.transformations)
             THEN rank_rows(agent, reference_order, rest, filters, written,
                            IF filters.verbose
                            THEN Append(echo, Report("transformation not specified",
                                                     agent, category, transformation))
                            ELSE echo)
             ELSE LET rp == spearmanr(reference_order, row.order)
                  IN  IF rp.outcome = "raise" THEN LoopEnd(written, echo, rp)
                      ELSE rank_rows(agent, reference_order, rest, filters,
                                     Append(written,
                                            [agent |-> agent, category |-> category,
                                             transformation |-> transformation,
                                             coefficient |-> rp.value.correlation,
                                             pvalue |-> rp.value.pvalue]),
                                     echo)

\* one pass of `for agent in agents`
rank_agent(agent, files, filters, written, echo) ==
    LET csv_file == agent2file(agent)
    IN  IF ~is_csv(csv_file)
        THEN LoopEnd(written,
                     IF filters.verbose
                     THEN Append(echo, Report("does not exist", agent, "", ""))
                     ELSE echo,
                     Return(None))
        ELSE LET echo1 == IF filters.verbose
                          THEN Append(echo, Report("calculating ranks", agent, "", ""))
                          ELSE echo
                 table == read_csv(files, csv_file)
             IN  IF table.outcome = "raise" THEN LoopEnd(written, echo1, table)
                 ELSE rank_rows(agent, table.value.reference_order,
                                table.value.sorted_data, filters, written, echo1)

(***************************************************************************)
(* Specification SpecRank: one rank_standard call, one agent per step.     *)
(***************************************************************************)
MetricAgent == <<"metrics", "MSE">>

HumanAgent == <<"humans", "survey">>

\* the agent name "humans-": its last part is empty
NamelessAgent == <<"humans", "">>

Agents == {MetricAgent, HumanAgent, NamelessAgent}

\* the header of a sorted-data file lists the labels in ascending order
ReferenceOrder == [i \in 1..MaxN |-> i]

\* two full orders and one that is a label short
RankRows ==
    {DataRow("wheat", "noise", ReferenceOrder),
     DataRow("dirt", "zoom", Reverse(ReferenceOrder)),
     DataRow("wheat", "zoom", SubSeq(ReferenceOrder, 1, MaxN - 1))}

SortedTables ==
    {[reference_order |-> ReferenceOrder, sorted_data |-> rows] :
        rows \in SeqsUpTo(RankRows, MaxRows)}

\* the sorted-data files on disk: a table, or no file
SortedFiles ==
    [{agent2file(MetricAgent), agent2file(HumanAgent)} ->
        {None} \cup {Some(t) : t \in SortedTables}]

AgentLists ==
    {l \in SeqsUpTo(Agents, 2) : \A i, j \in DOMAIN l : l[i] = l[j] => i = j}

CategoryFilters == {<<>>, <<"wheat">>}

TransformationFilters == {<<>>, <<"zoom">>}

InitRank ==
    /\ StoreIdle /\ DecodeIdle /\ CorrIdle /\ SortIdle /\ StoreOpIdle /\ BatchIdle
    /\ AgentIdle
    /\ rank_in \in [agents : AgentLists, files : SortedFiles,
                    categories : CategoryFilters,
                    transformations : TransformationFilters,
                    verbose : BOOLEAN]
    /\ rank_pos = [pc |-> "header", agent |-> 1]
    /\ rank_out = [header |-> FALSE, written |-> <<>>, echo |-> <<>>,
                   result |-> Pending]

RankFrame ==
    UNCHANGED <<store_vars, decode_vars, corr_vars, sort_vars, storeop_vars,
                batch_vars, agent_vars>>

\* writer.writerow(['agent', 'category', 'transformation', 'coefficient', 'p-value'])
RankHeader ==
    /\ rank_pos.pc = "header"
    /\ rank_pos' = [rank_pos EXCEPT !.pc = "agents"]
    /\ rank_out' = [rank_out EXCEPT !.header = TRUE]
    /\ UNCHANGED rank_in
    /\ RankFrame

\* the body of `for agent in agents` for the next agent
RankAgent ==
    /\ rank_pos.pc = "agents"
    /\ rank_pos.agent <= Len(rank_in.agents)
    /\ LET end == rank_agent(rank_in.agents[rank_pos.agent], rank_in.files,
                             rank_in, rank_out.written, rank_out.echo)
       IN  /\ rank_out' = [rank_out EXCEPT !.written = end.written,
                                           !.echo = end.echo,
                                           !.result = IF end.result.outcome = "raise"
                                                      THEN end.result ELSE @]
           /\ rank_pos' = IF end.result.outcome = "raise"
                          THEN [rank_pos EXCEPT !.pc = "raised"]
                          ELSE [rank_pos EXCEPT !.agent = @ + 1]
    /\ UNCHANGED rank_in
    /\ RankFrame

\* the loop is exhausted and rank_standard returns None
RankReturn ==
    /\ rank_pos.pc = "agents"
    /\ rank_pos.agent > Len(rank_in.agents)
    /\ rank_pos' = [rank_pos EXCEPT !.pc = "returned"]
    /\ rank_out' = [rank_out EXCEPT !.result = Return(None)]
    /\ UNCHANGED rank_in
    /\ RankFrame

NextRank == RankHeader \/ RankAgent \/ RankReturn

SpecRank == InitRank /\ [][NextRank]_vars

(***************************************************************************)
(* src/commands/data.py : decode_command.                                  *)
(***************************************************************************)
\* a line echoed by decode_command
BatchReport(kind, file_name, name, detail) ==
    [kind |-> kind, file_name |-> file_name, sequence_name |-> name,
     detail |-> detail]

\* a row of a raw survey file: the sequence name, then the symbols
RawRow(name, sequence) == [sequence_name |-> name, sequence |-> sequence]

\* [header_line[0], *map(seq_num_formatter, range(1, 11))]
decoded_header(header_line) ==
    <<header_line[1]>> \o [i \in 1..10 |-> seq_num_formatter(i)]

\* what one pass of the row loop adds: rows written, lines echoed, and whether
\* the pass ran through or raised
RowEnd(written, echo, result) ==
    [written |-> written, echo |-> echo, result |-> result]

\* the body of the row loop without its except clause
decode_row_uncaught(sequence_keys, file_name, row) ==
    LET outcome == decode_sequence(sequence_keys, row.sequence_name, row.sequence, TRUE)
    IN  IF outcome.outcome = "return"
        THEN RowEnd(<<<<row.sequence_name>> \o outcome.value>>, <<>>, Return(None))
        ELSE RowEnd(<<>>, <<>>, outcome)

\* try: writer.writerow([sequence_name, *decode_sequence(sequence_name, sequence)])
\* except SequenceError as e: two lines are echoed.  decode_sequence raises
\* nothing but SequenceError.
decode_row(sequence_keys, file_name, row) ==
    LET outcome == decode_sequence(sequence_keys, row.sequence_name, row.sequence, TRUE)
    IN  IF outcome.outcome = "return"
        THEN RowEnd(<<<<row.sequence_name>> \o outcome.value>>, <<>>, Return(None))
        ELSE RowEnd(<<>>,
                    <<BatchReport("Sequence Error in", file_name,
                                  row.sequence_name, <<>>),
                      BatchReport(outcome.error, file_name, row.sequence_name,
                                  outcome.message)>>,
                    Return(None))

(***************************************************************************)
(* Specifications SpecBatch and SpecBatchFair: one decode_command run, one *)
(* row per step.  The raw files are well-formed csv (a header line, a name *)
(* in every row) and the output directory exists.                          *)
(***************************************************************************)
RawFileNames == <<"first.csv", "second.csv">>

\* a row that decodes against the key a,b; one with a repeated symbol; one
\* under another name
RawRowSet ==
    {RawRow("wheat_noise", <<"b", "a">>),
     RawRow("wheat_noise", <<"a", "a">>),
     RawRow("dirt_zoom", <<"a">>)}

RawTables ==
    {[header_line |-> <<"category#transformation">>, rows |-> rows] :
        rows \in SeqsUpTo(RawRowSet, MaxRows)}

BatchStores ==
    {[exists |-> FALSE, data |-> EmptyDict],
     [exists |-> TRUE, data |-> [n \in {"wheat_noise"} |-> <<"a", "b">>]],
     [exists |-> TRUE,
      data |-> [n \in SeqNames |-> IF n = "wheat_noise" THEN <<"a", "b">> ELSE <<>>]]}

BatchInputs ==
    {[file_names |-> names, files |-> files, verbose |-> verbose] :
        names \in {SubSeq(RawFileNames, 1, k) : k \in 0..Len(RawFileNames)},
        files \in UNION {[Range(SubSeq(RawFileNames, 1, k)) -> RawTables] :
                            k \in 0..Len(RawFileNames)},
        verbose \in BOOLEAN}

InitBatch ==
    /\ DecodeIdle /\ CorrIdle /\ SortIdle /\ StoreOpIdle /\ RankIdle
    /\ AgentIdle
    /\ sequence_file \in BatchStores
    /\ sequences_cache = EmptyDict
    /\ batch_in \in {b \in BatchInputs : DOMAIN b.files = Range(b.file_names)}
    /\ batch_pos = [pc |-> "files", file |-> 1, row |-> 1]
    /\ batch_out = [files |-> EmptyDict, echo |-> <<>>, result |-> Pending]

BatchFrame ==
    UNCHANGED <<decode_vars, corr_vars, sort_vars, storeop_vars, rank_vars,
                agent_vars>>

\* read_csv(input_path), open(output_path, "w"), the header row
BatchOpen ==
    /\ batch_pos.pc = "files"
    /\ batch_pos.file <= Len(batch_in.file_names)
    /\ LET file_name == batch_in.file_names[batch_pos.file]
       IN  /\ batch_out' =
                  [batch_out EXCEPT
                      !.files = DictPut(@, file_name,
                                        <<decoded_header(
                                              batch_in.files[file_name].header_line)>>),
                      !.echo = IF batch_in.verbose
                               THEN Append(@, BatchReport("Decoding", file_name, "", <<>>))
                               ELSE @]
           /\ batch_pos' = [batch_pos EXCEPT !.pc = "rows", !.row = 1]
    /\ UNCHANGED <<batch_in, store_vars>>
    /\ BatchFrame

\* one pass of `for sequence_name, *sequence in rows`
BatchRow ==
    /\ batch_pos.pc = "rows"
    /\ LET file_name == batch_in.file_names[batch_pos.file]
           rows      == batch_in.files[file_name].rows
       IN  /\ batch_pos.row <= Len(rows)
           /\ LET end == decode_row(read_sequence(sequences_cache, sequence_file,
                                                  rows[batch_pos.row].sequence_name),
                                    file_name, rows[batch_pos.row])
              IN  /\ batch_out' =
                         [batch_out EXCEPT
                             !.files[file_name] = @ \o end.written,
                             !.echo = @ \o end.echo,
                             !.result = IF end.result.outcome = "raise"
                                        THEN end.result ELSE @]
                  /\ batch_pos' = IF end.result.outcome = "raise"
                                  THEN [batch_pos EXCEPT !.pc = "raised"]
                                  ELSE [batch_pos EXCEPT !.row = @ + 1]
    /\ sequences_cache' = read_sequences_cache(sequences_cache, sequence_file)
    /\ UNCHANGED <<batch_in, sequence_file>>
    /\ BatchFrame

\* the rows are exhausted: the output file is closed, the next file is due
BatchClose ==
    /\ batch_pos.pc = "rows"
    /\ batch_pos.row
           > Len(batch_in.files[batch_in.file_names[batch_pos.file]].rows)
    /\ batch_out' =
           [batch_out EXCEPT
               !.echo = IF batch_in.verbose
                        THEN Append(@, BatchReport("Successfully written",
                                                   batch_in.file_names[batch_pos.file],
                                                   "", <<>>))
                        ELSE @]
    /\ batch_pos' = [batch_pos EXCEPT !.pc = "files", !.file = @ + 1]
    /\ UNCHANGED <<batch_in, store_vars>>
    /\ BatchFrame

\* the files are exhausted: decode_command returns
BatchReturn ==
    /\ batch_pos.pc = "files"
    /\ batch_pos.file > Len(batch_in.file_names)
    /\ batch_pos' = [batch_pos EXCEPT !.pc = "returned"]
    /\ batch_out' = [batch_out EXCEPT !.result = Return(None)]
    /\ UNCHANGED <<batch_in, store_vars>>
    /\ BatchFrame

NextBatch == BatchOpen \/ BatchRow \/ BatchClose \/ BatchReturn

SpecBatch == InitBatch /\ [][NextBatch]_vars

\* the interpreter keeps executing the command until it returns or raises
SpecBatchFair == SpecBatch /\ WF_vars(NextBatch)

(***************************************************************************)
(* src/analysis/__init__.py : AnalyzerBase.sort.                           *)
(* sorted(images, key=..., reverse=...) is CPython's list.sort: with       *)
(* reverse the list is reversed, sorted ascending by a stable sort (binary *)
(* insertion below 64 elements) and reversed again.                        *)
(***************************************************************************)
\* insert x behind every element of the sorted list l whose key is <= key[x]
insert_sorted(l, x, key) ==
    LET at == Cardinality({i \in DOMAIN l : key[l[i]] <= key[x]})
    IN  SubSeq(l, 1, at) \o <<x>> \o SubSeq(l, at + 1, Len(l))

RECURSIVE insertion_sort(_, _)
insertion_sort(l, key) ==
    IF Len(l) = 0 THEN <<>>
    ELSE insert_sorted(insertion_sort(SubSeq(l, 1, Len(l) - 1), key), l[Len(l)], key)

\* sorted() that sorts ascending and reverses the result
python_sorted_reversed_after(l, key, reverse) ==
    IF reverse THEN Reverse(insertion_sort(l, key)) ELSE insertion_sort(l, key)

python_sorted(l, key, reverse) ==
    IF reverse THEN Reverse(insertion_sort(Reverse(l), key))
    ELSE insertion_sort(l, key)

\* sort() that ignores big_similar and always sorts ascending
AnalyzerBase_sort_ascending(imgs, rate, is_big_similar) ==
    Return(python_sorted(imgs, rate, FALSE))

\* sort(self, images, orig): key = self.rate(image, orig), reverse = big_similar
AnalyzerBase_sort(imgs, rate, is_big_similar) ==
    Return(python_sorted(imgs, rate, is_big_similar))

(***************************************************************************)
(* Specification SpecSort: one AnalyzerBase.sort call.                     *)
(***************************************************************************)
ImageIds == 1..MaxImages

Scores == 0..MaxScore

\* lists of distinct images, in any order
ImageLists ==
    {l \in SeqsUpTo(ImageIds, MaxImages) :
        \A i, j \in DOMAIN l : l[i] = l[j] => i = j}

InitSort ==
    /\ StoreIdle /\ DecodeIdle /\ CorrIdle /\ StoreOpIdle /\ RankIdle /\ BatchIdle
    /\ AgentIdle
    /\ images \in ImageLists
    /\ rates \in [ImageIds -> Scores]
    /\ big_similar \in BOOLEAN
    /\ sorted_images = Pending

\* analyzer.sort(images, orig)
SortCall ==
    /\ sorted_images.outcome = "pending"
    /\ sorted_images' = AnalyzerBase_sort(images, rates, big_similar)
    /\ UNCHANGED <<images, rates, big_similar>>
    /\ UNCHANGED <<store_vars, decode_vars, corr_vars, storeop_vars, rank_vars,
                   batch_vars, agent_vars>>

NextSort == SortCall

SpecSort == InitSort /\ [][NextSort]_vars

(***************************************************************************)
(* Vocabulary of the decode claims.                                        *)
(***************************************************************************)
DecodeDone == decoded.outcome # "pending"

\* the persisted collection holds a Sequence under the decoded name
HasStored == sequence_file.exists /\ sequence_name \in DOMAIN sequence_file.data

Stored == sequence_file.data[sequence_name]

PairwiseDistinct(s) == \A i, j \in DOMAIN s : s[i] = s[j] => i = j

IsPermutationOf(s, t) ==
    /\ Len(s) = Len(t)
    /\ \A x \in Range(s) \cup Range(t) :
           Cardinality({i \in DOMAIN s : s[i] = x})
               = Cardinality({i \in DOMAIN t : t[i] = x})

\* the canonical rank labels as the spec writes them
CanonicalLabel ==
    <<"01", "02", "03", "04", "05", "06", "07", "08", "09", "10", "11", "12">>

\* 1-based position of x in a list of pairwise-distinct symbols
PositionIn(s, x) == CHOOSE i \in DOMAIN s : s[i] = x

\* C1 (as claimed): strict decode against a stored Sequence of length k, any
\* k >= 0, fails with the length error if len(input) # k, else with the
\* duplicate error if the input repeats an element, else with the unknown-symbol
\* error if an element is not stored, and succeeds in every remaining case.
C1_StrictClassification ==
    (DecodeDone /\ strict /\ HasStored) =>
        IF Len(input_sequence) # Len(Stored)
        THEN decoded.outcome = "raise" /\ decoded.error = "LengthsDoNotMatch"
        ELSE IF ~PairwiseDistinct(input_sequence)
        THEN decoded.outcome = "raise" /\ decoded.error = "RepetitiveElement"
        ELSE IF \E i \in DOMAIN input_sequence :
                    input_sequence[i] \notin Range(Stored)
        THEN decoded.outcome = "raise" /\ decoded.error = "UnknownSymbol"
        ELSE decoded.outcome = "return"

\* C2 (as claimed): for a stored Sequence of pairwise-distinct symbols and an
\* input that is a permutation of them, strict decode returns, in input order,
\* the zero-padded width-2 label of 1 + index of each input symbol, and the
\* output is a permutation of the labels 01..k.
C2_DecodeInvertsPermutation ==
    (/\ DecodeDone /\ strict /\ HasStored
     /\ PairwiseDistinct(Stored)
     /\ IsPermutationOf(input_sequence, Stored)) =>
        /\ decoded.outcome = "return"
        /\ Len(decoded.value) = Len(input_sequence)
        /\ \A i \in DOMAIN input_sequence :
               decoded.value[i] = CanonicalLabel[PositionIn(Stored, input_sequence[i])]
        /\ IsPermutationOf(decoded.value, [j \in 1..Len(Stored) |-> CanonicalLabel[j]])

\* C3 (as claimed): non-strict decode against a stored Sequence never fails; it
\* maps every input symbol that occurs in the stored Sequence to its canonical
\* label and passes every other input symbol through unchanged.
C3_NonStrictNeverFails ==
    (DecodeDone /\ ~strict /\ HasStored) =>
        /\ decoded.outcome = "return"
        /\ Len(decoded.value) = Len(input_sequence)
        /\ \A i \in DOMAIN input_sequence :
               IF input_sequence[i] \in Range(Stored)
               THEN \E j \in DOMAIN Stored :
                        /\ Stored[j] = input_sequence[i]
                        /\ decoded.value[i] = CanonicalLabel[j]
               ELSE decoded.value[i] = input_sequence[i]

C5_NonStrictPassThrough ==
    (DecodeDone /\ ~strict /\ ~HasStored) =>
        /\ decoded.outcome = "return"
        /\ decoded.value = input_sequence

C5_Witness ==
    /\ DecodeDone /\ ~strict /\ ~HasStored
    /\ Len(input_sequence) = 3 /\ PairwiseDistinct(input_sequence)
    /\ input_sequence # <<"a", "b", "c">>
    /\ decoded.outcome = "return"

(***************************************************************************)
(* Vocabulary of the correlator claims.                                    *)
(***************************************************************************)
CorrDone == correlator # "none"

CorrReturned == CorrDone /\ correlated.outcome = "return"

\* the coefficient a returning correlator produced
Coefficient ==
    IF correlator = "spearmanrank" THEN correlated.value
    ELSE correlated.value.correlation

IsSorted(s) ==
    \/ \A i, j \in DOMAIN s : i < j => s[i] < s[j]
    \/ \A i, j \in DOMAIN s : i < j => s[i] > s[j]

\* C6 (as claimed): whenever the reference order and the observed order are
\* not the same multiset of labels (different lengths, different elements or
\* different multiplicities) the correlator fails with the incompatible-orders
\* error and computes no coefficient; for spearmanrank and for the spearmanr
\* call of rank_standard.
C6_IncompatibleOrdersFail ==
    (CorrDone /\ ~IsPermutationOf(seq1, seq2)) =>
        /\ correlated.outcome = "raise"
        /\ correlated.error = "ValueError"

C9_ShortOrdersGiveNaN ==
    (CorrDone /\ Len(seq1) = Len(seq2) /\ Len(seq1) < 3) =>
        /\ correlated.outcome = "return"
        /\ Coefficient.nan
        /\ (correlator = "spearmanr" => correlated.value.pvalue.nan)

\* C10 (as claimed): whenever the correlator returns a numeric coefficient for
\* a pair of equal-length orders, the coefficient lies in [-1, 1].
C10_CoefficientInUnitInterval ==
    (CorrReturned /\ Len(seq1) = Len(seq2) /\ ~Coefficient.nan) =>
        CoefInUnitInterval(Coefficient)

(***************************************************************************)
(* Vocabulary of the sort claims.                                          *)
(***************************************************************************)
SortDone == sorted_images.outcome = "return"

SortedOut == sorted_images.value

\* C11: AnalyzerBase.sort is stable: two input images with equal rate appear
\* in the output in their input order, for big_similar true and false.
C11_SortIsStable ==
    SortDone =>
        /\ IsPermutationOf(SortedOut, images)
        /\ \A i, j \in DOMAIN images :
               (i < j /\ rates[images[i]] = rates[images[j]]) =>
                   PositionIn(SortedOut, images[i]) < PositionIn(SortedOut, images[j])

C11_Witness ==
    /\ SortDone /\ big_similar /\ Len(images) = 3
    /\ rates[images[1]] = rates[images[3]]
    /\ rates[images[2]] > rates[images[1]]
    /\ images[1] > images[3]
    /\ SortedOut = <<images[2], images[1], images[3]>>

\* C12: AnalyzerBase.sort orders by score in the declared direction: of two
\* images with different scores the higher-scored comes first when big_similar
\* is true, the lower-scored when it is false; so for [A,B] and big_similar the
\* output is [A,B] iff rate(A) >= rate(B).
C12_SortFollowsDirection ==
    SortDone =>
        /\ IsPermutationOf(SortedOut, images)
        /\ \A p, q \in DOMAIN SortedOut :
               (p < q /\ rates[SortedOut[p]] # rates[SortedOut[q]]) =>
                   IF big_similar
                   THEN rates[SortedOut[p]] > rates[SortedOut[q]]
                   ELSE rates[SortedOut[p]] < rates[SortedOut[q]]
        /\ (Len(images) = 2 /\ big_similar) =>
               ((SortedOut = images) <=> (rates[images[1]] >= rates[images[2]]))

C12_Witness ==
    /\ SortDone /\ ~big_similar /\ Len(images) = 3
    /\ rates[images[1]] > rates[images[2]] /\ rates[images[2]] > rates[images[3]]
    /\ SortedOut = Reverse(images)

\* the message of the error names the sequence
MessageNamesSequence ==
    \E i \in DOMAIN decoded.message : decoded.message[i] = sequence_name

\* the message of the error holds the given text as one of its parts
MessageHolds(text) ==
    \E i \in DOMAIN decoded.message : decoded.message[i] = text

\* C26: every decode validation error raised by decode_sequence carries the
\* sequence name together with the offending data: the offending symbol for an
\* unknown or duplicated symbol, the two lengths for a length mismatch.
C26_ErrorsCarryContext ==
    (DecodeDone /\ decoded.outcome = "raise") =>
        /\ MessageNamesSequence
        /\ (decoded.error = "LengthsDoNotMatch") =>
               /\ MessageHolds(ToString(Len(input_sequence)))
               /\ MessageHolds(ToString(Len(Stored)))
        /\ (decoded.error = "UnknownSymbol") =>
               \E i \in DOMAIN input_sequence :
                   /\ input_sequence[i] \notin Range(Stored)
                   /\ MessageHolds("'" \o input_sequence[i] \o "'")
        /\ (decoded.error = "RepetitiveElement") =>
               \E i, j \in DOMAIN input_sequence :
                   /\ i # j /\ input_sequence[i] = input_sequence[j]
                   /\ \/ MessageHolds(input_sequence[i])
                      \/ MessageHolds("'" \o input_sequence[i] \o "'")

\* C29: for a stored Sequence in which some symbol occurs more than once, no
\* input passes strict decode_sequence: every input is rejected with a
\* length-mismatch, duplicate-symbol or unknown-symbol error.
C29_RepeatedKeyRejectsAll ==
    (DecodeDone /\ strict /\ HasStored /\ ~PairwiseDistinct(Stored)) =>
        /\ decoded.outcome = "raise"
        /\ decoded.error \in {"LengthsDoNotMatch", "RepetitiveElement", "UnknownSymbol"}

C29_Witness ==
    /\ DecodeDone /\ strict /\ HasStored
    /\ Stored = <<"a", "b", "a">>
    /\ input_sequence = <<"b", "a", "c">>
    /\ decoded.outcome = "raise" /\ decoded.error = "UnknownSymbol"

(***************************************************************************)
(* Vocabulary of the store claims.                                         *)
(***************************************************************************)
\* the collection as persisted in sequences.json
Persisted == IF sequence_file.exists THEN sequence_file.data ELSE EmptyDict

\* what read_sequence(name) would return now
ReadNow(name) == read_sequence(sequences_cache, sequence_file, name)

\* C13: after any sequence of successful write_sequence / remove_sequence
\* calls, read_sequence(name) returns the symbols of the latest write of name
\* unless a remove of name followed it, and None otherwise; what the cache
\* yields never differs from the persisted collection.
C13_ReadsObserveLatestWrite ==
    /\ \A name \in SeqNames : ReadNow(name) = latest[name]
    /\ read_sequences(sequences_cache, sequence_file) = Persisted
    /\ (store_call.op = "read_sequence") =>
           store_call.result = Return(latest[store_call.name])

C13_Witness ==
    /\ store_call.op = "write_sequence"
    /\ store_call.name = "wheat_noise"
    /\ "wheat_noise" \in DOMAIN store_call.before
    /\ "dirt_zoom" \notin DOMAIN Persisted
    /\ latest["dirt_zoom"] = None
    /\ ReadNow("wheat_noise") = Some(<<"b", "a">>)
    /\ store_call.before["wheat_noise"] = <<"a", "b">>

\* C15: remove_sequence(name) returns the symbols stored under name before the
\* call (None if there was no entry); afterwards read_sequence(name) is None
\* and every other entry of the store is unchanged.
C15_RemoveReturnsAndFrames ==
    (store_call.op = "remove_sequence") =>
        /\ store_call.result = Return(DictGet(store_call.before, store_call.name))
        /\ ReadNow(store_call.name) = None
        /\ \A other \in SeqNames \ {store_call.name} :
               /\ ReadNow(other) = DictGet(store_call.before, other)
               /\ DictGet(Persisted, other) = DictGet(store_call.before, other)

C15_Witness ==
    /\ store_call.op = "remove_sequence"
    /\ store_call.name = "dirt_zoom"
    /\ store_call.result = Return(Some(<<"a">>))
    /\ ReadNow("dirt_zoom") = None
    /\ ReadNow("wheat_noise") = Some(<<"b">>)

\* C27: if the write raises during remove_sequence, the store is unchanged as
\* observed afterwards in the same process: read_sequence(name) still returns
\* the sequence that was stored before the failed remove, and read_sequences()
\* equals the persisted collection.
C27_FailedRemoveChangesNothing ==
    (store_call.op = "remove_sequence" /\ store_call.result.outcome = "raise") =>
        /\ sequence_file = store_call.file
        /\ ReadNow(store_call.name) = DictGet(store_call.file.data, store_call.name)
        /\ read_sequences(sequences_cache, sequence_file) = Persisted

(***************************************************************************)
(* Vocabulary of the command claims.                                       *)
(***************************************************************************)
NewDone == store_call.op = "new_sequence"

\* the command refused with its already-exists message
AlreadyExists ==
    /\ Len(store_call.echo) = 2
    /\ store_call.echo[1] = store_call.name
    /\ store_call.echo[2] = " already exists in sequence data, choose another one or use --force to override"

\* generate_random_sequence was called and raised its ClickException
InsufficientAlphabet ==
    /\ store_call.result.outcome = "raise"
    /\ store_call.result.error = "ClickException"

\* C14: sequence new under a name that has an entry in the store, without
\* --force, ends with the already-exists outcome and leaves the whole stored
\* collection unchanged, whatever the entry's symbols are (zero symbols
\* included); with --force the entry is replaced by the new symbols.
C14_ExistingNameNeedsForce ==
    (NewDone /\ store_call.name \in DOMAIN store_call.before) =>
        IF ~store_call.args.force
        THEN AlreadyExists /\ sequence_file = store_call.file
        ELSE ~InsufficientAlphabet =>
                 /\ store_call.name \in DOMAIN Persisted
                 /\ Persisted[store_call.name] = store_call.args.sequence
                 /\ ReadNow(store_call.name) = Some(store_call.args.sequence)

\* C16: generate_random_sequence fails with the insufficient-alphabet error
\* when count exceeds the size of the symbol set, replacement is false and
\* truncate is false; inside sequence new nothing is then written to the store.
C16_InsufficientAlphabetWritesNothing ==
    (/\ NewDone /\ ~AlreadyExists
     /\ store_call.args.count
            > Len(symbol_set_of(store_call.args.set_name, store_call.args.count))
     /\ ~store_call.args.replacement /\ ~store_call.args.truncate) =>
        /\ InsufficientAlphabet
        /\ sequence_file = store_call.file
        /\ \A name \in SeqNames : ReadNow(name) = DictGet(store_call.before, name)

C16_Witness ==
    /\ NewDone /\ store_call.args.force
    /\ store_call.args.count = MaxCount /\ store_call.args.set_name = "alpha"
    /\ ~store_call.args.replacement /\ ~store_call.args.truncate
    /\ InsufficientAlphabet
    /\ store_call.file.exists /\ store_call.name \in DOMAIN store_call.before
    /\ sequence_file = store_call.file

\* sequence new generated a sequence and wrote it under its name
NewWritten ==
    /\ NewDone /\ ~AlreadyExists
    /\ store_call.result.error \notin {"ClickException", "ValueError", "IndexError"}

\* C23: every Sequence held in the store has pairwise-distinct symbols after
\* sequence new, with any count, alphabet, replacement and truncate options.
C23_StoredSymbolsAreDistinct ==
    NewWritten =>
        /\ store_call.name \in DOMAIN Persisted
        /\ PairwiseDistinct(Persisted[store_call.name])

\* C25: with replacement false, truncate true and count not above the size of
\* the alphabet, generate_random_sequence returns exactly count pairwise
\* distinct symbols that are a permutation of the first count members of the
\* alphabet, for every outcome of the draw.
C25_TruncatedDrawIsPermutation ==
    (/\ NewDone /\ ~AlreadyExists
     /\ ~store_call.args.replacement /\ store_call.args.truncate
     /\ store_call.args.count
            <= Len(symbol_set_of(store_call.args.set_name, store_call.args.count))) =>
        /\ NewWritten
        /\ Len(store_call.args.sequence) = store_call.args.count
        /\ PairwiseDistinct(store_call.args.sequence)
        /\ IsPermutationOf(store_call.args.sequence,
                           SubSeq(symbol_set_of(store_call.args.set_name,
                                                store_call.args.count),
                                  1, store_call.args.count))
        /\ Persisted[store_call.name] = store_call.args.sequence

C25_Witness ==
    /\ NewWritten
    /\ ~store_call.args.replacement /\ store_call.args.truncate
    /\ store_call.args.set_name = "alpha" /\ store_call.args.count = 2
    /\ store_call.args.sequence = <<"b", "a">>
    /\ Persisted[store_call.name] = <<"b", "a">>

(***************************************************************************)
(* Vocabulary of the rank_standard claims.                                 *)
(***************************************************************************)
\* rank_standard has returned or has raised
RankEnded == rank_pos.pc \in {"returned", "raised"}

\* the agent's sorted-order source file is on disk
HasSource(agent) ==
    /\ agent2file(agent) \in DOMAIN rank_in.files
    /\ rank_in.files[agent2file(agent)].some

SourceRows(agent) == rank_in.files[agent2file(agent)].val.sorted_data

\* the row passes both filters, an empty filter letting every row pass
PassesFilters(row) ==
    /\ rank_in.categories = <<>> \/ row.key[1] \in Range(rank_in.categories)
    /\ rank_in.transformations = <<>> \/ row.key[2] \in Range(rank_in.transformations)

\* the row has as many labels as the header, so that it can be correlated
Rankable(row) == Len(row.order) = Len(ReferenceOrder)

\* the (agent, category, transformation) of the records written so far
WrittenKeys ==
    [i \in DOMAIN rank_out.written |->
        <<rank_out.written[i].agent, rank_out.written[i].category,
          rank_out.written[i].transformation>>]

\* the rows of the agent's source that the filters keep, in file order
RECURSIVE KeptKeys(_, _)
KeptKeys(agent, rows) ==
    IF Len(rows) = 0 THEN <<>>
    ELSE (IF PassesFilters(Head(rows)) /\ Rankable(Head(rows))
          THEN <<<<agent, Head(rows).key[1], Head(rows).key[2]>>>>
          ELSE <<>>) \o KeptKeys(agent, Tail(rows))

\* the records to be emitted for the selected agents, in agent order
RECURSIVE ExpectedKeys(_)
ExpectedKeys(agents) ==
    IF Len(agents) = 0 THEN <<>>
    ELSE (IF HasSource(Head(agents))
          THEN KeptKeys(Head(agents), SourceRows(Head(agents)))
          ELSE <<>>) \o ExpectedKeys(Tail(agents))

\* every selected agent has its source and every row of it can be correlated
AllSourcesSound ==
    \A i \in DOMAIN rank_in.agents :
        /\ HasSource(rank_in.agents[i])
        /\ \A k \in DOMAIN SourceRows(rank_in.agents[i]) :
               Rankable(SourceRows(rank_in.agents[i])[k])

\* C17: an empty category filter restricts nothing, and so an empty
\* transformation filter: a record is emitted for every row present in each
\* selected agent's data; a non-empty filter keeps exactly the rows whose
\* category (transformation) is a member of it.
C17_FiltersSelectRows ==
    RankEnded => WrittenKeys = ExpectedKeys(rank_in.agents)

\* the filters of C17 on the runs where nothing else goes wrong
C17_FiltersSelectRowsOfSoundSources ==
    (RankEnded /\ AllSourcesSound) =>
        /\ rank_pos.pc = "returned"
        /\ WrittenKeys = ExpectedKeys(rank_in.agents)

\* C18: a selected agent whose sorted-order source file does not exist is
\* reported and skipped, the records of every other selected agent, before and
\* after it, are still emitted, and the run does not end with an error.
C18_MissingSourceIsSkipped ==
    (RankEnded /\ \E i \in DOMAIN rank_in.agents : ~HasSource(rank_in.agents[i])) =>
        /\ rank_pos.pc = "returned"
        /\ \A i \in DOMAIN rank_in.agents :
               ~HasSource(rank_in.agents[i]) =>
                   /\ rank_in.verbose =>
                          \E k \in DOMAIN rank_out.echo :
                              rank_out.echo[k]
                                  = Report("does not exist", rank_in.agents[i], "", "")
                   /\ \A k \in DOMAIN rank_out.written :
                          rank_out.written[k].agent # rank_in.agents[i]
        /\ \A i \in DOMAIN rank_in.agents :
               HasSource(rank_in.agents[i]) =>
                   \A k \in DOMAIN SourceRows(rank_in.agents[i]) :
                       LET row == SourceRows(rank_in.agents[i])[k]
                       IN  (PassesFilters(row) /\ Rankable(row)) =>
                               \E w \in DOMAIN WrittenKeys :
                                   WrittenKeys[w]
                                       = <<rank_in.agents[i], row.key[1], row.key[2]>>

\* every selected agent has its source file
AllSourcesPresent ==
    \A i \in DOMAIN rank_in.agents : HasSource(rank_in.agents[i])

\* some row that reaches the correlator has not as many labels as the header
SomeRowIncompatible ==
    \E i \in DOMAIN rank_in.agents :
        /\ HasSource(rank_in.agents[i])
        /\ \E k \in DOMAIN SourceRows(rank_in.agents[i]) :
               /\ PassesFilters(SourceRows(rank_in.agents[i])[k])
               /\ ~Rankable(SourceRows(rank_in.agents[i])[k])

\* C22: a data row whose observed order is incompatible with the header's
\* reference order (a different number of labels) fails only that row's
\* computation: the records of all other rows of the agent and of all other
\* agents are still emitted and the run completes.
C22_IncompatibleRowFailsAlone ==
    (RankEnded /\ AllSourcesPresent /\ SomeRowIncompatible) =>
        /\ rank_pos.pc = "returned"
        /\ \A i \in DOMAIN rank_in.agents :
               \A k \in DOMAIN SourceRows(rank_in.agents[i]) :
                   LET row == SourceRows(rank_in.agents[i])[k]
                   IN  (PassesFilters(row) /\ Rankable(row)) =>
                           \E w \in DOMAIN WrittenKeys :
                               WrittenKeys[w]
                                   = <<rank_in.agents[i], row.key[1], row.key[2]>>

\* C24: the records emitted by one rank_standard run contain no two records
\* with the same (agent, category, transformation), whatever the agent list
\* and the content of the agents' source tables.
C24_RecordKeysAreUnique ==
    \A v, w \in DOMAIN WrittenKeys : WrittenKeys[v] = WrittenKeys[w] => v = w

(***************************************************************************)
(* Vocabulary of the decode batch claim.                                   *)
(***************************************************************************)
BatchReturned == batch_pos.pc = "returned"

\* does decode_sequence raise on this row, with the store as persisted?
RowFails(row) ==
    decode_sequence(DictGet(Persisted, row.sequence_name), row.sequence_name,
                    row.sequence, TRUE).outcome = "raise"

\* the names of the rows that decode, in file order
RECURSIVE DecodableNames(_)
DecodableNames(rows) ==
    IF Len(rows) = 0 THEN <<>>
    ELSE (IF RowFails(Head(rows)) THEN <<>> ELSE <<Head(rows).sequence_name>>)
             \o DecodableNames(Tail(rows))

\* the names of the rows that fail, in file order
RECURSIVE FailingNames(_)
FailingNames(rows) ==
    IF Len(rows) = 0 THEN <<>>
    ELSE (IF RowFails(Head(rows)) THEN <<Head(rows).sequence_name>> ELSE <<>>)
             \o FailingNames(Tail(rows))

\* the names the "Sequence Error in" lines echoed for the file give, in order
RECURSIVE ReportedNames(_, _)
ReportedNames(echo, file_name) ==
    IF Len(echo) = 0 THEN <<>>
    ELSE (IF Head(echo).kind = "Sequence Error in" /\ Head(echo).file_name = file_name
          THEN <<Head(echo).sequence_name>> ELSE <<>>)
             \o ReportedNames(Tail(echo), file_name)

\* the first cells of the data rows written to the file's output
WrittenNames(file_name) ==
    [i \in 1..(Len(batch_out.files[file_name]) - 1) |->
        batch_out.files[file_name][i + 1][1]]

\* every file of the batch has its output, with a row for each row that
\* decodes and none for a row that fails, and a report naming each failing row
BatchOutputComplete ==
    /\ DOMAIN batch_out.files = Range(batch_in.file_names)
    /\ \A file_name \in Range(batch_in.file_names) :
           /\ WrittenNames(file_name)
                  = DecodableNames(batch_in.files[file_name].rows)
           /\ ReportedNames(batch_out.echo, file_name)
                  = FailingNames(batch_in.files[file_name].rows)

\* C19: in the decode batch a raw row whose decoding fails with a decode
\* validation error gives no output row and a report naming the row's key,
\* every later row of the file and every later file is still decoded and
\* written, and the batch always runs to completion.
C19_BatchRunsToCompletion ==
    /\ [](batch_pos.pc # "raised")
    /\ [](BatchReturned => BatchOutputComplete)
    /\ <>BatchReturned

C19_Witness ==
    /\ BatchReturned
    /\ batch_in.file_names = RawFileNames
    /\ batch_in.files["first.csv"].rows
           = <<RawRow("wheat_noise", <<"a", "a">>), RawRow("wheat_noise", <<"b", "a">>)>>
    /\ batch_in.files["second.csv"].rows = <<RawRow("wheat_noise", <<"b", "a">>)>>
    /\ ReportedNames(batch_out.echo, "first.csv") = <<"wheat_noise">>
    /\ Len(batch_out.files["first.csv"]) = 2
    /\ batch_out.files["first.csv"][2] = <<"wheat_noise", "02", "01">>
    /\ batch_out.files["second.csv"][2] = <<"wheat_noise", "02", "01">>

\* C21: in every sorted-order table written by the decode command (and by the
\* sort command) the labels of each data row are a permutation of the labels
\* of the table's header row, for any stored Sequence length.
C21_RowsPermuteHeader ==
    \A file_name \in DOMAIN batch_out.files :
        \A i \in 2..Len(batch_out.files[file_name]) :
            IsPermutationOf(Tail(batch_out.files[file_name][i]),
                            Tail(batch_out.files[file_name][1]))

(***************************************************************************)
(* Vocabulary of the significance claim.                                   *)
(***************************************************************************)
\* 100 * t^2 at the two-sided 5% point of Student's t, rounded up, for 1..9
\* degrees of freedom (t = 12.706, 4.303, 3.182, 2.776, 2.571, 2.447, 2.365,
\* 2.306, 2.262)
CriticalSquare100 == <<16145, 1852, 1013, 771, 661, 599, 560, 532, 512>>

\* the p-value is a number below 0.05: |t| lies beyond the 5% point
PBelow005(p) ==
    /\ ~p.nan
    /\ p.dof \in DOMAIN CriticalSquare100
    /\ \/ p.tden = 0 /\ p.tnum > 0
       \/ p.tden > 0 /\ 100 * p.tnum > CriticalSquare100[p.dof] * p.tden

\* C20: the two-sided significance value is below 0.05 when an order of n >= 3
\* distinct labels is correlated with itself, and when the reference order
\* 01..11 is correlated with itself with positions 5 and 6 swapped.
C20_SignificanceBelowThreshold ==
    (CorrDone /\ correlator = "spearmanr") =>
        /\ (Len(seq1) >= 3 /\ PairwiseDistinct(seq1) /\ seq2 = seq1) =>
               /\ correlated.outcome = "return"
               /\ PBelow005(correlated.value.pvalue)
        /\ (seq1 = Canonical11 /\ seq2 = Swapped56) =>
               /\ correlated.outcome = "return"
               /\ PBelow005(correlated.value.pvalue)

C20_Witness ==
    /\ CorrReturned /\ correlator = "spearmanr"
    /\ seq1 = Canonical11 /\ seq2 = Swapped56
    /\ correlated.value.pvalue.tden > 0
    /\ PBelow005(correlated.value.pvalue)
    /\ ~CoefIsOne(Coefficient)

\* the labels of the order ascend strictly
IsAscending(s) == \A i, j \in DOMAIN s : i < j => s[i] < s[j]

\* the natural whose square is x, when x is a square
Root(x) == CHOOSE r \in 0..x : r * r = x

\* two coefficients num / sqrt(den2) with square den2 are the same number
CoefEqual(c, d) ==
    /\ ~c.nan /\ ~d.nan
    /\ \E r \in 0..c.den2 : r * r = c.den2
    /\ \E r \in 0..d.den2 : r * r = d.den2
    /\ c.num * Root(d.den2) = d.num * Root(c.den2)

\* C28: for an observed order that is a permutation of n >= 3 pairwise
\* distinct labels, the reference being those labels in ascending order, the
\* hand-rolled spearmanrank(reference, observed) equals the tie-aware Spearman
\* coefficient that rank_standard computes with spearmanr on the same pair.
C28_HandRolledEqualsTieAware ==
    (/\ CorrDone /\ Len(seq1) >= 3 /\ IsAscending(seq1)
     /\ IsPermutationOf(seq2, seq1)) =>
        /\ correlated.outcome = "return"
        /\ spearmanrank(seq1, seq2).outcome = "return"
        /\ spearmanr(seq1, seq2).outcome = "return"
        /\ CoefEqual(Coefficient, spearmanrank(seq1, seq2).value)
        /\ CoefEqual(Coefficient, spearmanr(seq1, seq2).value.correlation)

C28_Witness ==
    /\ CorrReturned /\ correlator = "spearmanrank"
    /\ seq1 = <<1, 2, 3, 4>> /\ seq2 = <<2, 4, 1, 3>>
    /\ ~CoefIsOne(Coefficient) /\ ~CoefIsMinusOne(Coefficient)
    /\ CoefEqual(Coefficient, spearmanr(seq1, seq2).value.correlation)

\* ---------------------------------------------------------------------
\* Agent names and sorted-data files: get_agent_names, file2agent and
\* the agent2file of rank_standard.  A file name is the text of its
\* '-'-free pieces joined by '-'; an agent name is the text file2agent
\* returns, and agent2file receives it split again at every '-'.
\* ---------------------------------------------------------------------

\* consts.agent_name_delim
agent_name_delim == "-"

\* consts.metric_sorted_data_dir
metric_sorted_data_dir == sorted_data_dir \o <<"metrics">>

\* str.join: the pieces with the delimiter between neighbours
RECURSIVE str_join(_, _)
str_join(delim, pieces) ==
    IF Len(pieces) = 0 THEN ""
    ELSE IF Len(pieces) = 1 THEN pieces[1]
    ELSE pieces[1] \o delim \o str_join(delim, Tail(pieces))

\* the '-'-free texts a directory or file name is made of
NamePieces == {"MSE", "CW", "SSIM", "survey"}

TypePieces == {"metrics", "humans"}

\* every way a text of the model can fall apart at its delimiters
PieceSeqs ==
    UNION {[1..n -> NamePieces \cup TypePieces] : n \in 1..(MaxPieces + 1)}

\* str.split: the one sequence of delimiter-free pieces that joins back to
\* the text
str_split(text, delim) ==
    CHOOSE pieces \in PieceSeqs : str_join(delim, pieces) = text

\* os.path.splitext(tail)[0]: the name without its extension; a name that
\* is only ".csv" is a dot-file and keeps its text
splitext_root(f) ==
    IF f.parts[Len(f.parts)] = "" THEN f.ext ELSE f.parts[Len(f.parts)]

\* file2agent(filename): the directory of the file, the delimiter, the name
\* of the file without extension
file2agent(f) ==
    str_join(agent_name_delim, <<f.parts[Len(f.parts) - 1], splitext_root(f)>>)

\* the csv and other files the two listed directories can hold
FileNames ==
    {str_join(agent_name_delim, p) :
        p \in UNION {[1..n -> NamePieces] : n \in 1..MaxPieces}}

ListedFiles ==
    {[parts |-> dir \o <<name>>, ext |-> e] :
        dir \in {metric_sorted_data_dir, human_sorted_data_dir},
        name \in FileNames, e \in {".csv", ".txt"}}

InitAgents ==
    /\ filename \in ListedFiles
    /\ listed_agent = Pending
    /\ resolved_file = Pending
    /\ StoreIdle /\ DecodeIdle /\ CorrIdle /\ SortIdle /\ StoreOpIdle
    /\ RankIdle /\ BatchIdle

AgentFrame ==
    UNCHANGED <<store_vars, decode_vars, corr_vars, sort_vars, storeop_vars,
                rank_vars, batch_vars>>

\* get_agent_names: ls keeps the files csv_filter accepts and maps each
\* through file2agent
GetAgentNames ==
    /\ listed_agent.outcome = "pending"
    /\ is_csv(filename)
    /\ listed_agent' = Return(file2agent(filename))
    /\ UNCHANGED <<filename, resolved_file>>
    /\ AgentFrame

\* rank_standard, for a listed agent: csv_file = agent2file(agent)
ResolveAgent ==
    /\ listed_agent.outcome = "return"
    /\ resolved_file.outcome = "pending"
    /\ resolved_file' =
        Return(agent2file(str_split(listed_agent.value, agent_name_delim)))
    /\ UNCHANGED <<filename, listed_agent>>
    /\ AgentFrame

NextAgents == GetAgentNames \/ ResolveAgent

SpecAgents == InitAgents /\ [][NextAgents]_vars

\* C30: every agent that get_agent_names lists resolves, through agent2file
\* in rank_standard, to the very file it was listed from
C30_ListedAgentResolvesToItsFile ==
    resolved_file.outcome = "return" => resolved_file.value = filename

====
